---- MODULE Spec2Model ----
(***************************************************************************)
(* Writing assistant: the controller (planner, aggregator, termination     *)
(* check), the evaluator and the skills, driven round by round.            *)
(*                                                                         *)
(* Texts are sequences of tokens.  A token is one character of the         *)
(* protocol (";", a line break, a blank, a sign, a digit) or a word that   *)
(* holds none of them, so that splitting, integer conversion and the       *)
(* substring test are computed as the code computes them.                  *)
(***************************************************************************)
EXTENDS Integers, Sequences, FiniteSets

(***************************************************************************)
(* Bounds of the model.                                                    *)
(***************************************************************************)
MaxLines == 2          \* lines in one planning reply of the oracle
MaxTopK == 2           \* largest configured top_k_execution_plan
MaxIteration == 2      \* get_plan calls in one behaviour
MaxMessages == 2       \* user messages read by main in one behaviour

(***************************************************************************)
(* Python helpers used by the controller.                                  *)
(***************************************************************************)
NL == "\n"
SEP == ";"

RECURSIVE SplitFrom(_, _, _, _)
SplitFrom(s, sep, i, cur) ==
    IF i > Len(s) THEN <<cur>>
    ELSE IF s[i] = sep THEN <<cur>> \o SplitFrom(s, sep, i + 1, <<>>)
    ELSE SplitFrom(s, sep, i + 1, Append(cur, s[i]))

\* str.split(sep): every separator cuts, "" gives [""]
split(s, sep) == SplitFrom(s, sep, 1, <<>>)

\* str.splitlines(): like split on the line break, without a last empty line
splitlines(s) ==
    LET parts == split(s, NL)
    IN  IF parts[Len(parts)] = <<>> THEN SubSeq(parts, 1, Len(parts) - 1) ELSE parts

\* seq[:n] for n >= 0
Take(s, n) == SubSeq(s, 1, IF n < Len(s) THEN n ELSE Len(s))

Digits == <<"0", "1", "2", "3", "4", "5", "6", "7", "8", "9">>
IsDigit(c) == \E d \in 1..10 : Digits[d] = c
DigitValue(c) == (CHOOSE d \in 1..10 : Digits[d] = c) - 1

RECURSIVE Strip(_)
Strip(s) ==
    IF s = <<>> THEN s
    ELSE IF s[1] = " " THEN Strip(Tail(s))
    ELSE IF s[Len(s)] = " " THEN Strip(SubSeq(s, 1, Len(s) - 1))
    ELSE s

RECURSIVE Decimal(_)
Decimal(ds) ==
    IF ds = <<>> THEN 0
    ELSE 10 * Decimal(SubSeq(ds, 1, Len(ds) - 1)) + DigitValue(ds[Len(ds)])

\* int(text): <<n>> when text is blanks, an optional sign, digits, blanks;
\* <<>> when int() raises ValueError
int(text) ==
    LET t == Strip(text)
        signed == t # <<>> /\ t[1] \in {"-", "+"}
        ds == IF signed THEN Tail(t) ELSE t
    IN  IF ds # <<>> /\ \A i \in 1..Len(ds) : IsDigit(ds[i])
        THEN <<(IF signed /\ t[1] = "-" THEN 0 - Decimal(ds) ELSE Decimal(ds))>>
        ELSE <<>>

(***************************************************************************)
(* The chains of the agent (name, skill run by the chain).                 *)
(***************************************************************************)
chains ==
    << [name |-> "Outline Writer", runner |-> "OutlineWriterSkill"],
       [name |-> "Article Writer", runner |-> "SectionWriterSkill"],
       [name |-> "Google Search", runner |-> "GoogleSearchContextBuilderSkill"],
       [name |-> "Google News", runner |-> "GoogleNewsContextBuilderSkill"] >>

(***************************************************************************)
(* parse_line: Option.none() is <<>>, Option.some(v) is <<v>>.             *)
(***************************************************************************)
\* next(filter(lambda item: item.name == name, chains)): <<>> is StopIteration
FirstChain(name, registry) ==
    LET hits == {i \in 1..Len(registry) : <<registry[i].name>> = name}
    IN  IF hits = {} THEN <<>>
        ELSE <<registry[CHOOSE i \in hits : \A j \in hits : i <= j]>>

\* line.split(";")[:3]
Fields(line) == Take(split(line, SEP), 3)

parse_line(line, registry) ==
    LET fields == Fields(line)
    IN  IF Len(fields) # 3 THEN <<>>
        ELSE LET chain == FirstChain(fields[1], registry)
                 score == int(fields[2])
             IN  IF chain = <<>> \/ score = <<>> THEN <<>>
                 ELSE << <<chain[1], score[1], fields[3]>> >>


(***************************************************************************)
(* get_plan, after the oracle has answered.                                *)
(***************************************************************************)
RECURSIVE NonEmpty(_)
NonEmpty(ls) ==
    IF ls = <<>> THEN <<>>
    ELSE IF Len(Head(ls)) > 0 THEN <<Head(ls)>> \o NonEmpty(Tail(ls))
    ELSE NonEmpty(Tail(ls))

\* (mutant) a line that does not parse ends the parsing of the reply
RECURSIVE ParseAllAbort(_, _)
ParseAllAbort(ls, registry) ==
    IF ls = <<>> THEN <<>>
    ELSE IF parse_line(Head(ls), registry) = <<>> THEN <<>>
    ELSE <<parse_line(Head(ls), registry)>> \o ParseAllAbort(Tail(ls), registry)

\* parsed: the non-empty lines of the reply, each through parse_line
RECURSIVE ParseAll(_, _)
ParseAll(ls, registry) ==
    IF ls = <<>> THEN <<>>
    ELSE <<parse_line(Head(ls), registry)>> \o ParseAll(Tail(ls), registry)

Parsed(response, registry) == ParseAll(NonEmpty(splitlines(response)), registry)

\* (mutant) a score equal to the threshold passes
PassesAtThreshold(r, threshold) == r # <<>> /\ r[1][2] >= threshold

Passes(r, threshold) == r # <<>> /\ r[1][2] > threshold

\* filtered: the present results whose score is above the threshold
RECURSIVE Filtered(_, _)
Filtered(parsed, threshold) ==
    IF parsed = <<>> THEN <<>>
    ELSE IF Passes(Head(parsed), threshold)
         THEN <<Head(parsed)[1]>> \o Filtered(Tail(parsed), threshold)
         ELSE Filtered(Tail(parsed), threshold)

\* list.sort(key=..., reverse=True) and sorted(..., reverse=True): the positions
\* of the items in descending order of their keys, equal keys in their old order
RECURSIVE InsertIndex(_, _, _)
InsertIndex(order, k, keys) ==
    IF order = <<>> THEN <<k>>
    ELSE IF keys[Head(order)] >= keys[k]
         THEN <<Head(order)>> \o InsertIndex(Tail(order), k, keys)
         ELSE <<k>> \o order

RECURSIVE SortedOrder(_, _)
SortedOrder(keys, n) ==
    IF n = 0 THEN <<>> ELSE InsertIndex(SortedOrder(keys, n - 1), n, keys)

SortReverse(items, keys) ==
    LET order == SortedOrder(keys, Len(items))
    IN  [i \in 1..Len(items) |-> items[order[i]]]

\* (mutant) sorted ascending, then reversed: equal scores end in reverse order
SortByScoreReversed(items) ==
    LET asc == SortReverse(items, [i \in 1..Len(items) |-> 0 - items[i][2]])
    IN  [i \in 1..Len(items) |-> asc[Len(items) + 1 - i]]

\* filtered.sort(key=lambda item: item[1], reverse=True)
SortByScore(items) == SortReverse(items, [i \in 1..Len(items) |-> items[i][2]])

\* (mutant) the snapshot holds the round number of before the call
ExecutionUnitEarly(item, article, outline, iteration) ==
    [chain |-> item[1],
     initial_state |-> [kind |-> "Chain", message |-> item[3],
                        data |-> [article |-> article, outline |-> outline,
                                  iteration |-> iteration - 1],
                        source |-> "", is_error |-> FALSE],
     name |-> <<item[1].name, ": ">> \o item[3]]

\* ExecutionUnit(chain, budget, initial_state=ChatMessage.chain(...), name=...)
ExecutionUnit(item, article, outline, iteration) ==
    [chain |-> item[1],
     initial_state |-> [kind |-> "Chain", message |-> item[3],
                        data |-> [article |-> article, outline |-> outline,
                                  iteration |-> iteration],
                        source |-> "", is_error |-> FALSE],
     name |-> <<item[1].name, ": ">> \o item[3]]

Units(items, article, outline, iteration) ==
    [i \in 1..Len(items) |-> ExecutionUnit(items[i], article, outline, iteration)]

\* (mutant) one unit too many
TruncateOneMore(result, top_k) == Take(result, top_k + 1)

\* result[: self._top_k]
Truncate(result, top_k) == Take(result, top_k)

\* (mutant) the first top_k passing lines are kept, then sorted
PlanOfTruncatedFirst(response, registry, threshold, top_k, article, outline, iteration) ==
    LET filtered == Filtered(Parsed(response, registry), threshold)
    IN  IF Len(filtered) = 0 THEN <<>>
        ELSE Units(SortByScore(Truncate(filtered, top_k)), article, outline, iteration)

PlanOf(response, registry, threshold, top_k, article, outline, iteration) ==
    LET filtered == Filtered(Parsed(response, registry), threshold)
    IN  IF Len(filtered) = 0 THEN <<>>
        ELSE Truncate(Units(SortByScore(filtered), article, outline, iteration), top_k)


(***************************************************************************)
(* What the oracle, the workers' model and the user can say.               *)
(***************************************************************************)
PlanLines ==
    { <<"Outline Writer", ";", "8", ";", "expand intro">>,
      <<"Article Writer", ";", "8", ";", "fix typo">>,
      <<"Article Writer", ";", "3", ";", "fix typo">>,
      <<"Outline Writer", ";", "3", ";", "fix typo">>,
      <<"Google Search", ";", "5", ";", "expand intro">>,
      <<"Outline Writer", ";", "0", ";", "expand intro">>,
      <<"Google News", ";", "-", "2", ";", "fix typo">>,
      <<"Article Writer", ";", " ", "1", "0", ";", "expand intro", ";", "fix typo">>,
      <<"Outline Writer", ";", "8">>,
      <<"Article Writer", ";", "high", ";", "fix typo">>,
      <<"Editor", ";", "8", ";", "fix typo">>,
      <<>> }

RECURSIVE JoinLines(_)
JoinLines(ls) ==
    IF ls = <<>> THEN <<>>
    ELSE IF Len(ls) = 1 THEN ls[1]
    ELSE ls[1] \o <<NL>> \o JoinLines(Tail(ls))

\* the planning replies: up to MaxLines lines, one line break between two lines
PlanReplies ==
    UNION { { JoinLines(ls) : ls \in [1..n -> PlanLines] } : n \in 0..MaxLines }

\* the planning replies of the rounds of a whole run
LoopReplies ==
    { <<"Outline Writer", ";", "8", ";", "expand intro", NL,
        "Article Writer", ";", "3", ";", "fix typo">>,
      <<"Article Writer", ";", "8", ";", "expand intro", NL,
        "Article Writer", ";", "3", ";", "fix typo">>,
      <<"Article Writer", ";", "3", ";", "fix typo", NL>>,
      <<"Google Search", ";", "5", ";", "expand intro", NL,
        "Editor", ";", "8", ";", "fix typo">>,
      <<"Outline Writer", ";", "0", ";", "expand intro">> }

MergeReplies == {"merged 1", "merged 2"}
SkillReplies == {"draft"}
SearchContexts == {"Date: \nContent: \nfound\n\n"}

KEEP_EDITING == <<"KEEP", " ", "EDITING">>
DecisionReplies ==
    { <<"checks", "\n">> \o KEEP_EDITING,
      <<"checks", "\n", "RETURN TO REQUESTING AGENT">>,
      KEEP_EDITING \o <<"\n", "RETURN TO REQUESTING AGENT">>,
      <<"keep", " ", "editing">>,
      <<"checks">> }

Thresholds == {0, 5}
DefaultMessage == "Tell me about the history of box manufacturing."


(***************************************************************************)
(* State.                                                                  *)
(***************************************************************************)
VARIABLES
    _iteration, _outline, _article,      \* WritingAssistantController state
    _top_k, _response_threshold,         \* WritingAssistantController settings
    chatHistory,                         \* run_context.chatHistory.messages
    chainHistory,                        \* run_context.chainHistory: per chain, in
                                         \* insertion order, its last chain context
    evaluationHistory,                   \* run_context.evaluationHistory: its last entry
    pc,                                  \* where main and the agent's loop stand
    budget,                              \* the budget of the running agent.execute
    plan, pending,                       \* the plan of the round, its units not yet run
    requests,                            \* LLM requests of the handler that ran last
    answers,                             \* what the LLM did with each of them
    response,                            \* get_plan: the oracle's reply
    outlines, articles,                  \* select_responses: the merge candidates
    decision,                            \* select_responses: the oracle's verdict text
    result,                              \* what the handler that ran last returned
    calls,                               \* get_plan calls made so far
    running,                             \* Spinner.running
    spinner_thread,                      \* where Spinner.spinner_thread stands
    spinner_cycle                        \* the frame Spinner.spinner_cycle yields next

controller == <<_iteration, _outline, _article, _top_k, _response_threshold>>
context == <<chatHistory, chainHistory, evaluationHistory>>
locals == <<requests, answers, response, outlines, articles, decision, result>>
spinner == <<running, spinner_thread, spinner_cycle>>
vars == <<controller, context, pc, budget, plan, pending, locals, calls, spinner>>

\* No Spinner is modelled but in SpecSpinner: the handlers never touch it.
NoSpinner ==
    /\ running = FALSE
    /\ spinner_thread = "none"
    /\ spinner_cycle = 0

NoLocals ==
    /\ requests' = <<>>
    /\ answers' = <<>>
    /\ response' = <<>>
    /\ outlines' = <<>>
    /\ articles' = <<>>
    /\ decision' = <<>>
    /\ result' = <<>>

\* an oracle call answers with one of the replies or raises (<<>>)
Outcomes(replies) == {<<r>> : r \in replies} \cup {<<>>}

\* [f"{m.kind}: {m.message}" for m in context.chatHistory.messages]
conversation_history(messages) ==
    [i \in 1..Len(messages) |-> <<messages[i].kind, ": ", messages[i].message>>]

Init ==
    /\ _iteration = 0
    /\ _outline = ""
    /\ _article = ""
    /\ _top_k \in 0..MaxTopK
    /\ _response_threshold \in Thresholds
    /\ chatHistory = <<>>
    /\ chainHistory = <<>>
    /\ evaluationHistory = <<>>
    /\ pc = "INPUT"
    /\ budget = "ok"
    /\ plan = <<>>
    /\ pending = {}
    /\ requests = <<>>
    /\ answers = <<>>
    /\ response = <<>>
    /\ outlines = <<>>
    /\ articles = <<>>
    /\ decision = <<>>
    /\ result = <<>>
    /\ calls = 0
    /\ NoSpinner

(***************************************************************************)
(* get_plan.                                                               *)
(***************************************************************************)
PlanRequest ==
    [prompt |-> "plan",
     chains |-> [i \in 1..Len(chains) |-> chains[i].name],
     conversation_history |-> conversation_history(chatHistory),
     outline |-> _outline,
     article |-> _article]

\* (mutant) the counter is set to 1 instead of being raised
NextIterationReset(iteration) == 1

\* self._iteration += 1
NextIteration(iteration) == iteration + 1

GetPlan(replies) ==
    /\ pc = "PLANNING"
    /\ budget = "ok"
    /\ _iteration < MaxIteration
    /\ _iteration' = NextIteration(_iteration)
    /\ calls' = calls + 1
    /\ requests' = <<PlanRequest>>
    /\ \E answer \in Outcomes(replies) :
          /\ answers' = <<answer>>
          /\ IF answer = <<>>
             THEN /\ pc' = "FAILED"
                  /\ UNCHANGED <<plan, response>>
             ELSE /\ response' = answer[1]
                  /\ plan' = PlanOf(answer[1], chains, _response_threshold, _top_k,
                                    _article, _outline, _iteration')
                  /\ pc' = "PLANNED"
    /\ UNCHANGED <<spinner, _outline, _article, _top_k, _response_threshold, context,
                   budget, pending, outlines, articles, decision, result>>


(***************************************************************************)
(* The skills, run by the chain of an execution unit.                      *)
(***************************************************************************)
IsWriter(skill) == skill \in {"OutlineWriterSkill", "SectionWriterSkill"}

\* the ChatMessage.skill(...) a skill returns; last_message is the initial state
SkillMessage(skill, last_message, reply) ==
    LET instructions == last_message.message
        iteration == last_message.data.iteration
    IN  IF skill = "OutlineWriterSkill"
        THEN [kind |-> "Skill", message |-> <<"I've edited the outline">>,
              data |-> [outline |-> reply, instructions |-> instructions,
                        iteration |-> iteration],
              source |-> skill, is_error |-> FALSE]
        ELSE IF skill = "SectionWriterSkill"
        THEN [kind |-> "Skill", message |-> <<"I've written or edited the article">>,
              data |-> [article |-> reply, instructions |-> instructions,
                        iteration |-> iteration],
              source |-> skill, is_error |-> FALSE]
        ELSE [kind |-> "Skill", message |-> <<skill, " responses for ">> \o instructions,
              data |-> [context |-> reply, instructions |-> instructions,
                        iteration |-> iteration],
              source |-> skill, is_error |-> FALSE]

\* the chain context of one execution: the initial state, then the skill's message
ChainRun(unit, reply) ==
    <<unit.initial_state, SkillMessage(unit.chain.runner, unit.initial_state, reply)>>

\* context.chainHistory[name].append(chain context), a new key going last.
\* Of the runs of a chain the model keeps the last one: chain_history[-1] is the
\* only one the program reads.
Record(history, name, run) ==
    IF \E k \in 1..Len(history) : history[k].name = name
    THEN [k \in 1..Len(history) |->
             IF history[k].name = name
             THEN [history[k] EXCEPT !.contexts = <<run>>]
             ELSE history[k]]
    ELSE Append(history, [name |-> name, contexts |-> <<run>>])

\* The LLM of a writer skill answers the request it is sent, which holds the
\* unit's instructions: its text is the reply to these instructions.
ReplyTo(reply, instructions) == <<reply, ": ">> \o instructions

ExecuteUnit(i) ==
    /\ pc = "DISPATCHED"
    /\ budget = "ok"
    /\ i \in pending
    /\ \E reply \in (IF IsWriter(plan[i].chain.runner)
                     THEN {ReplyTo(r, plan[i].initial_state.message) : r \in SkillReplies}
                     ELSE SearchContexts) :
          chainHistory' = Record(chainHistory, plan[i].chain.name, ChainRun(plan[i], reply))
    /\ pending' = pending \ {i}
    /\ UNCHANGED <<spinner, controller, chatHistory, evaluationHistory, pc, budget, plan,
                   locals, calls>>

\* A skill that raises gives no message of its own: dispatch records a result
\* tagged as an error. What data that result carries is not fixed by the skills:
\* none at all (<<>>), or the data of the unit it was run for.
ErrorData(unit) == {<<>>, unit.initial_state.data}

ErrorMessage(skill, data) ==
    [kind |-> "Skill", message |-> <<"skill '", skill, "' raised exception">>,
     data |-> data, source |-> skill, is_error |-> TRUE]

\* the skill of a unit raises (its LLM call, its search)
FailUnit(i) ==
    /\ pc = "DISPATCHED"
    /\ budget = "ok"
    /\ i \in pending
    /\ \E data \in ErrorData(plan[i]) :
          chainHistory' = Record(chainHistory, plan[i].chain.name,
                                 <<plan[i].initial_state,
                                   ErrorMessage(plan[i].chain.runner, data)>>)
    /\ pending' = pending \ {i}
    /\ UNCHANGED <<spinner, controller, chatHistory, evaluationHistory, pc, budget, plan,
                   locals, calls>>

(***************************************************************************)
(* BasicEvaluatorWithSource.execute.                                       *)
(***************************************************************************)
Scored(chain_result) ==
    [message |-> [kind |-> "Agent", message |-> chain_result.message,
                  data |-> chain_result.data, source |-> chain_result.source,
                  is_error |-> chain_result.is_error],
     score |-> IF chain_result.kind = "Skill" /\ ~chain_result.is_error THEN 1 ELSE 0]

\* one scored message per chain that has ever run: the last message of its last run
execute(history) ==
    [k \in 1..Len(history) |->
        LET runs == history[k].contexts
            last == runs[Len(runs)]
        IN  Scored(last[Len(last)])]

\* (mutant) the evaluator runs with units of the plan still to run
EvaluateEarly ==
    /\ pc = "DISPATCHED"
    /\ budget = "ok"
    /\ chainHistory # <<>>
    /\ evaluationHistory' = <<execute(chainHistory)>>
    /\ pc' = "AGGREGATING"
    /\ UNCHANGED <<spinner, controller, chatHistory, chainHistory, budget, plan, pending,
                   locals, calls>>

\* context.evaluationHistory.append(result); of the evaluations the model keeps
\* the last one: evaluationHistory[-1] is the only one the program reads
Evaluate ==
    /\ pc = "DISPATCHED"
    /\ budget = "ok"
    /\ pending = {}
    /\ evaluationHistory' = <<execute(chainHistory)>>
    /\ pc' = "AGGREGATING"
    /\ UNCHANGED <<spinner, controller, chatHistory, chainHistory, budget, plan, pending,
                   locals, calls>>


(***************************************************************************)
(* select_responses: aggregation, then the termination check.              *)
(***************************************************************************)
\* sorted(context.evaluationHistory[-1], key=lambda x: x.score, reverse=True)
all_eval_results(evals) == SortReverse(evals, [k \in 1..Len(evals) |-> evals[k].score])

\* (mutant) results of earlier rounds are taken as well
IsCurrentOrEarlier(message, iteration) == message.data.iteration <= iteration

\* message.data['iteration'] == self._iteration
IsCurrent(message, iteration) == message.data.iteration = iteration

RECURSIVE current_iteration_results(_, _)
current_iteration_results(scored, iteration) ==
    IF scored = <<>> THEN <<>>
    ELSE IF IsCurrent(Head(scored).message, iteration)
         THEN <<Head(scored).message>> \o current_iteration_results(Tail(scored), iteration)
         ELSE current_iteration_results(Tail(scored), iteration)

\* (mutant) the results of every source are candidates, by their instructions
CandidatesOfAnySource(messages, source, field) ==
    [i \in 1..Len(messages) |-> messages[i].data.instructions]

\* the data[field] of the messages that come from the skill `source`
RECURSIVE Candidates(_, _, _)
Candidates(messages, source, field) ==
    IF messages = <<>> THEN <<>>
    ELSE IF Head(messages).source = source
         THEN <<Head(messages).data[field]>> \o Candidates(Tail(messages), source, field)
         ELSE Candidates(Tail(messages), source, field)

OutlineRequest(history, existing_outline, possible_outlines) ==
    [prompt |-> "outline",
     conversation_history |-> history,
     existing_outline |-> existing_outline,
     possible_outlines |-> possible_outlines]

\* (mutant) the article request is composed with the outline of before the merge
ArticleRequestEarly(history, article_outline, existing_article, partial_articles) ==
    [prompt |-> "article",
     conversation_history |-> history,
     article_outline |-> _outline,
     existing_article |-> existing_article,
     partial_articles |-> partial_articles]

ArticleRequest(history, article_outline, existing_article, partial_articles) ==
    [prompt |-> "article",
     conversation_history |-> history,
     article_outline |-> article_outline,
     existing_article |-> existing_article,
     partial_articles |-> partial_articles]

\* (mutant) the verdict is asked on the document of before the merges
DecisionRequestEarly(history, outline, article) ==
    [prompt |-> "decision",
     article |-> _article,
     outline |-> _outline,
     conversation_history |-> history]

DecisionRequest(history, outline, article) ==
    [prompt |-> "decision",
     article |-> article,
     outline |-> outline,
     conversation_history |-> history]

\* (mutant) the reply has to end with the marker
EndsWith(text, marker) ==
    Len(text) >= Len(marker)
    /\ SubSeq(text, Len(text) - Len(marker) + 1, Len(text)) = marker

\* marker in text, for texts that are token sequences
Contains(text, marker) ==
    \E i \in 0..(Len(text) - Len(marker)) : SubSeq(text, i + 1, i + Len(marker)) = marker

\* (mutant) the message holds the article of before the merges
VerdictOfStart(text, article) ==
    IF Contains(text, KEEP_EDITING) THEN <<>>
    ELSE << [message |-> [kind |-> "Agent", message |-> _article], score |-> 1] >>

\* the value returned once the oracle has given its verdict
Verdict(text, article) ==
    IF Contains(text, KEEP_EDITING) THEN <<>>
    ELSE << [message |-> [kind |-> "Agent", message |-> article], score |-> 1] >>

\* (mutant) the oracle's text is not stored
MergeDropsResponse(existing, merging, answer) == existing

\* (mutant) a call that raises leaves the field cleared
MergeClearsOnFailure(existing, merging, answer) ==
    IF merging THEN (IF answer # <<>> THEN answer[1] ELSE "") ELSE existing

\* self._outline = response (self._article = response): the field after its
\* aggregation. The assignment comes after the call, so a call that raises, or no
\* call at all, leaves the field as it was.
Merge(existing, merging, answer) ==
    IF merging /\ answer # <<>> THEN answer[1] ELSE existing

\* One call of select_responses, the oracle answering om to the outline merge, am
\* to the article merge and d to the termination check (<<>>: the call raises).
select_responses(evals, history, iteration, outline, article, om, am, d) ==
    \* message.data['iteration'] raises for a message that holds no such data
    IF \E k \in 1..Len(evals) : "iteration" \notin DOMAIN evals[k].message.data
    THEN [outlines |-> <<>>, articles |-> <<>>, requests |-> <<>>, answers |-> <<>>,
          awaited |-> FALSE, outline |-> outline, article |-> article,
          raised |-> TRUE, decision |-> <<>>, result |-> <<>>]
    ELSE
    LET current == current_iteration_results(all_eval_results(evals), iteration)
        os == Candidates(current, "OutlineWriterSkill", "outline")
        as == Candidates(current, "SectionWriterSkill", "article")
        oraised == os # <<>> /\ om = <<>>
        outline1 == Merge(outline, os # <<>>, om)
        amerge == ~oraised /\ as # <<>>
        araised == amerge /\ am = <<>>
        article1 == Merge(article, amerge, am)
        check == ~oraised /\ ~araised
        raised == ~check \/ d = <<>>
    IN  [outlines |-> os,
         articles |-> as,
         requests |->
             (IF os # <<>> THEN <<OutlineRequest(history, outline, os)>> ELSE <<>>)
             \o (IF amerge THEN <<ArticleRequest(history, outline1, article, as)>> ELSE <<>>)
             \o (IF check THEN <<DecisionRequest(history, outline1, article1)>> ELSE <<>>),
         answers |->
             (IF os # <<>> THEN <<om>> ELSE <<>>)
             \o (IF amerge THEN <<am>> ELSE <<>>)
             \o (IF check THEN <<d>> ELSE <<>>),
         awaited |-> check /\ (os # <<>> \/ amerge),
         outline |-> outline1,
         article |-> article1,
         raised |-> raised,
         decision |-> IF raised THEN <<>> ELSE d[1],
         result |-> IF raised THEN <<>> ELSE Verdict(d[1], article1)]

SelectResponses ==
    /\ pc = "AGGREGATING"
    /\ budget = "ok"
    /\ \E om \in Outcomes(MergeReplies), am \in Outcomes(MergeReplies),
          d \in Outcomes(DecisionReplies) :
          LET r == select_responses(evaluationHistory[Len(evaluationHistory)],
                                    conversation_history(chatHistory),
                                    _iteration, _outline, _article, om, am, d)
          IN  /\ outlines' = r.outlines
              /\ articles' = r.articles
              /\ requests' = r.requests
              /\ answers' = r.answers
              /\ _outline' = r.outline
              /\ _article' = r.article
              /\ decision' = r.decision
              /\ result' = r.result
              /\ pc' = IF r.raised THEN "FAILED" ELSE "EVALUATING"
              \* the merges take time and select_responses holds no budget: when
              \* the budget runs out while they are awaited, the verdict is asked
              \* for all the same
              /\ budget' \in (IF r.awaited THEN {"ok", "expired"} ELSE {"ok"})
    /\ UNCHANGED <<spinner, _iteration, _top_k, _response_threshold, context, plan, pending,
                   response, calls>>

(***************************************************************************)
(* main and the agent's loop around the handlers.                          *)
(***************************************************************************)
FinalOutput(article) ==
    << [message |-> [kind |-> "Agent", message |-> article], score |-> 1] >>

\* main reads a message and calls agent.execute(run_context, Budget(900))
UserMessage ==
    /\ pc = "INPUT"
    /\ Len(chatHistory) < MaxMessages
    /\ chatHistory' = Append(chatHistory,
                             [kind |-> "ChatMessageKind.User", message |-> DefaultMessage])
    /\ budget' = "ok"
    /\ pc' = "PLANNING"
    /\ UNCHANGED <<spinner, controller, chainHistory, evaluationHistory, plan, pending,
                   locals, calls>>

\* main reads 'quit'
Quit ==
    /\ pc = "INPUT"
    /\ pc' = "EXIT"
    /\ UNCHANGED <<spinner, controller, context, budget, plan, pending, locals, calls>>

\* the budget of the run runs out
Expire ==
    /\ pc \in {"PLANNING", "DISPATCHED", "AGGREGATING"}
    /\ budget = "ok"
    /\ budget' = "expired"
    /\ UNCHANGED <<spinner, controller, context, pc, plan, pending, locals, calls>>

\* the budget is found exhausted before a phase: the run is over
BudgetExhausted ==
    /\ pc \in {"PLANNING", "DISPATCHED", "AGGREGATING"}
    /\ budget = "expired"
    /\ pc' = "DONE"
    /\ result' = FinalOutput(_article)
    /\ UNCHANGED <<spinner, controller, context, budget, plan, pending, requests, answers,
                   response, outlines, articles, decision, calls>>

\* get_plan has returned: an empty plan ends the run, another one is dispatched
PlanReturned ==
    /\ pc = "PLANNED"
    /\ IF plan = <<>>
       THEN /\ pc' = "DONE"
            /\ result' = FinalOutput(_article)
            /\ pending' = {}
       ELSE /\ pc' = "DISPATCHED"
            /\ result' = <<>>
            /\ pending' = 1..Len(plan)
    /\ requests' = <<>>
    /\ answers' = <<>>
    /\ response' = <<>>
    /\ UNCHANGED <<spinner, controller, context, budget, plan, outlines, articles, decision,
                   calls>>

\* select_responses has returned: no message is another round, a message ends the run
VerdictReturned ==
    /\ pc = "EVALUATING"
    /\ pc' = IF result = <<>> THEN "PLANNING" ELSE "DONE"
    /\ requests' = <<>>
    /\ answers' = <<>>
    /\ outlines' = <<>>
    /\ articles' = <<>>
    /\ decision' = <<>>
    /\ UNCHANGED <<spinner, controller, context, budget, plan, pending, response, result, calls>>

\* (mutant) main builds a new controller for the next message
ShowResultNewController ==
    /\ pc = "DONE"
    /\ pc' = "INPUT"
    /\ plan' = <<>>
    /\ pending' = {}
    /\ NoLocals
    /\ _iteration' = 0
    /\ _outline' = ""
    /\ _article' = ""
    /\ UNCHANGED <<spinner, _top_k, _response_threshold, context, budget, calls>>

\* main prints the last message of the result and asks for the next message
ShowResult ==
    /\ pc = "DONE"
    /\ pc' = "INPUT"
    /\ plan' = <<>>
    /\ pending' = {}
    /\ NoLocals
    /\ UNCHANGED <<spinner, controller, context, budget, calls>>

Next ==
    \/ UserMessage
    \/ Quit
    \/ GetPlan(LoopReplies)
    \/ PlanReturned
    \/ \E i \in 1..MaxTopK : ExecuteUnit(i)
    \/ Evaluate
    \/ SelectResponses
    \/ VerdictReturned
    \/ Expire
    \/ BudgetExhausted
    \/ ShowResult

Spec == Init /\ [][Next]_vars

\* The runs in which skills may raise as well.
NextFailure ==
    \/ Next
    \/ \E i \in 1..MaxTopK : FailUnit(i)

SpecFailure == Init /\ [][NextFailure]_vars

\* the steps of a running agent.execute
Run ==
    \/ GetPlan(LoopReplies)
    \/ PlanReturned
    \/ \E i \in 1..MaxTopK : ExecuteUnit(i)
    \/ Evaluate
    \/ SelectResponses
    \/ VerdictReturned
    \/ BudgetExhausted

\* A run goes on while it has a step to take: every call of the loop returns or
\* raises. Budget(900) is finite: a run that keeps coming to the start of a phase
\* finds it run out at one of them.
FairSpec == Spec /\ WF_vars(Run) /\ SF_vars(Expire)


(***************************************************************************)
(* The planner alone: one get_plan call from a state a run can be in, on   *)
(* every planning reply of up to MaxLines lines.                           *)
(***************************************************************************)
InitPlanner ==
    /\ _iteration \in 0..(MaxIteration - 1)
    /\ calls = _iteration
    /\ \E doc \in {<<"", "">>, <<"merged 1", "merged 2">>} :
          _outline = doc[1] /\ _article = doc[2]
    /\ _top_k \in 0..MaxTopK
    /\ _response_threshold \in Thresholds
    /\ chatHistory = <<[kind |-> "ChatMessageKind.User", message |-> DefaultMessage]>>
    /\ chainHistory = <<>>
    /\ evaluationHistory = <<>>
    /\ pc = "PLANNING"
    /\ budget = "ok"
    /\ plan = <<>>
    /\ pending = {}
    /\ requests = <<>>
    /\ answers = <<>>
    /\ response = <<>>
    /\ outlines = <<>>
    /\ articles = <<>>
    /\ decision = <<>>
    /\ result = <<>>
    /\ NoSpinner

NextPlanner ==
    \/ GetPlan(PlanReplies)
    \/ PlanReturned

SpecPlanner == InitPlanner /\ [][NextPlanner]_vars


(***************************************************************************)
(* Properties of the decision parser and of the planner (SpecPlanner).     *)
(***************************************************************************)
Min(a, b) == IF a < b THEN a ELSE b

\* the non-empty lines of a planning reply
Lines(text) == NonEmpty(splitlines(text))

\* a line read by the positions of its first two separators
Seps(line) == {i \in 1..Len(line) : line[i] = SEP}
FirstSep(line) == CHOOSE i \in Seps(line) : \A j \in Seps(line) : i <= j
SecondSep(line) ==
    CHOOSE i \in Seps(line) \ {FirstSep(line)} :
        \A j \in Seps(line) \ {FirstSep(line)} : i <= j
NameOf(line) == SubSeq(line, 1, FirstSep(line) - 1)
ScoreOf(line) == SubSeq(line, FirstSep(line) + 1, SecondSep(line) - 1)
InstrOf(line) == SubSeq(line, SecondSep(line) + 1, Len(line))

IsIntegerLiteral(text) ==
    \E i, j \in 1..Len(text) :
        /\ i <= j
        /\ \A k \in 1..Len(text) : (k < i \/ k > j) => text[k] = " "
        /\ LET core == SubSeq(text, i, j)
               body == IF core[1] \in {"+", "-"} THEN Tail(core) ELSE core
           IN  body # <<>> /\ \A k \in 1..Len(body) : IsDigit(body[k])

Registered(name) == \E c \in 1..Len(chains) : <<chains[c].name>> = name
ChainNamed(name) == chains[CHOOSE c \in 1..Len(chains) : <<chains[c].name>> = name]

WellFormed(line) ==
    /\ Cardinality(Seps(line)) >= 2
    /\ Registered(NameOf(line))
    /\ IsIntegerLiteral(ScoreOf(line))

Malformed(line) ==
    \/ Cardinality(Seps(line)) < 2
    \/ ~Registered(NameOf(line))
    \/ ~IsIntegerLiteral(ScoreOf(line))

\* C1: every well-formed line name;score;instr of the reply parses to exactly
\* (the chain named name, the integer score, the whole text after the second
\* separator), also when that text holds separators itself.
C1_WholeInstruction ==
    pc = "PLANNED" =>
        \A k \in 1..Len(Lines(response)) :
            LET line == Lines(response)[k]
            IN  WellFormed(line) =>
                    parse_line(line, chains) =
                        << <<ChainNamed(NameOf(line)), int(ScoreOf(line))[1], InstrOf(line)>> >>

\* C2: a malformed line (fewer than three fields, a score that is no integer, a
\* name of no registered chain) parses to the empty result, and the plan is the
\* plan of the reply without its malformed lines.
C2_MalformedDropped ==
    pc = "PLANNED" =>
        LET lines == Lines(response)
            good == SelectSeq(lines, WellFormed)
        IN  /\ \A k \in 1..Len(lines) :
                   Malformed(lines[k]) => parse_line(lines[k], chains) = <<>>
            /\ plan = PlanOf(JoinLines(good), chains, _response_threshold, _top_k,
                             _article, _outline, _iteration)

C2_Witness ==
    /\ pc = "PLANNED"
    /\ plan # <<>>
    /\ Len(Lines(response)) >= 2
    /\ Malformed(Lines(response)[1])
    /\ WellFormed(Lines(response)[2])


\* the parsed lines of the reply that pass the threshold, in the reply's order
Items == Filtered(Parsed(response, chains), _response_threshold)

FromItem(unit, item) ==
    unit.chain = item[1] /\ unit.initial_state.message = item[3]

\* f gives each unit of the plan its own passing line
Origins == {f \in [1..Len(plan) -> 1..Len(Items)] :
               /\ \A i \in 1..Len(plan) : FromItem(plan[i], Items[f[i]])
               /\ \A i, j \in 1..Len(plan) : i # j => f[i] # f[j]}

\* C3: get_plan returns at most top_k Work Items.
C3_AtMostTopK == pc = "PLANNED" => Len(plan) <= _top_k

C3_Witness ==
    /\ pc = "PLANNED"
    /\ Len(Items) > _top_k
    /\ Len(plan) = _top_k

AboveThreshold(line) ==
    WellFormed(line) /\ int(ScoreOf(line))[1] > _response_threshold

\* C4: every Work Item comes from a line whose priority is strictly above
\* response_threshold, and there are no more Work Items than such lines: a line
\* whose score equals the threshold gives none.
C4_StrictlyAboveThreshold ==
    pc = "PLANNED" =>
        LET lines == Lines(response)
        IN  /\ \A i \in 1..Len(plan) :
                   \E k \in 1..Len(lines) :
                       /\ AboveThreshold(lines[k])
                       /\ plan[i].chain = ChainNamed(NameOf(lines[k]))
                       /\ plan[i].initial_state.message = Fields(lines[k])[3]
            /\ Len(plan) <= Cardinality({k \in 1..Len(lines) : AboveThreshold(lines[k])})

C4_Witness ==
    /\ pc = "PLANNED"
    /\ plan # <<>>
    /\ \E k \in 1..Len(Lines(response)) :
           /\ WellFormed(Lines(response)[k])
           /\ int(ScoreOf(Lines(response)[k]))[1] = _response_threshold

\* C5: the Work Items are in descending order of priority, and two of equal
\* priority are in the order of their lines in the reply.
C5_SortedStable ==
    pc = "PLANNED" =>
        \E f \in Origins :
            \A i, j \in 1..Len(plan) :
                i < j => \/ Items[f[i]][2] > Items[f[j]][2]
                         \/ Items[f[i]][2] = Items[f[j]][2] /\ f[i] < f[j]

C5_Witness ==
    /\ pc = "PLANNED"
    /\ Len(plan) = 2
    /\ Len(Items) = 2
    /\ Items[1][2] = Items[2][2]
    /\ Items[1][1] # Items[2][1]

Scenario2 ==
    <<"Outline Writer", ";", "8", ";", "expand intro", NL,
      "Article Writer", ";", "3", ";", "fix typo">>

\* C6: the plan is the first min(top_k, n) entries of the priority-sorted list of
\* the n passing lines: every line left out has a lower priority than every line
\* taken, or the same priority and a later place in the reply; priorities 8 and 3
\* with threshold 0 and top_k 1 give the one item of priority 8.
C6_TopOfSorted ==
    pc = "PLANNED" =>
        /\ Len(plan) = Min(_top_k, Len(Items))
        /\ \E f \in Origins :
               \A k \in 1..Len(Items) :
                   (\A i \in 1..Len(plan) : f[i] # k) =>
                       \A i \in 1..Len(plan) :
                           \/ Items[k][2] < Items[f[i]][2]
                           \/ Items[k][2] = Items[f[i]][2] /\ k > f[i]
        /\ (response = Scenario2 /\ _response_threshold = 0 /\ _top_k = 1) =>
               /\ Len(plan) = 1
               /\ plan[1].chain.name = "Outline Writer"
               /\ plan[1].initial_state.message = <<"expand intro">>

C6_Witness ==
    /\ pc = "PLANNED"
    /\ response = Scenario2
    /\ _response_threshold = 0
    /\ _top_k = 1
    /\ Len(plan) = 1


(***************************************************************************)
(* Properties of the rounds of a run (Spec).                               *)
(***************************************************************************)
\* C7: _iteration starts at 0 and always equals the number of get_plan calls made
\* so far, whatever plans they returned and however many runs main has started.
C7_IterationCountsPlans == _iteration = calls

C7_Witness ==
    /\ pc = "PLANNED"
    /\ plan = <<>>
    /\ Len(chatHistory) = 2
    /\ _iteration = 2

\* the scored messages select_responses has read
LastEvaluation == evaluationHistory[Len(evaluationHistory)]

CurrentFrom(source) ==
    {k \in 1..Len(LastEvaluation) :
        /\ LastEvaluation[k].message.source = source
        /\ "iteration" \in DOMAIN LastEvaluation[k].message.data
        /\ LastEvaluation[k].message.data.iteration = _iteration}

StaleFrom(source) ==
    {k \in 1..Len(LastEvaluation) :
        /\ LastEvaluation[k].message.source = source
        /\ "iteration" \in DOMAIN LastEvaluation[k].message.data
        /\ LastEvaluation[k].message.data.iteration # _iteration}

\* C8: the merge candidates of select_responses are the results of the current
\* round only: as many outline (article) candidates as current-round results of
\* the outline (article) skill, each the text of one of them.
C8_OnlyCurrentRound ==
    pc = "EVALUATING" =>
        /\ Len(outlines) = Cardinality(CurrentFrom("OutlineWriterSkill"))
        /\ Len(articles) = Cardinality(CurrentFrom("SectionWriterSkill"))
        /\ \A i \in 1..Len(outlines) :
               \E k \in CurrentFrom("OutlineWriterSkill") :
                   outlines[i] = LastEvaluation[k].message.data.outline
        /\ \A i \in 1..Len(articles) :
               \E k \in CurrentFrom("SectionWriterSkill") :
                   articles[i] = LastEvaluation[k].message.data.article

\* the evaluator re-emits the outline of an earlier round, the article is current
C8_Witness ==
    /\ pc = "EVALUATING"
    /\ StaleFrom("OutlineWriterSkill") # {}
    /\ CurrentFrom("SectionWriterSkill") # {}
    /\ outlines = <<>>
    /\ articles # <<>>

Asked(prompt) == {i \in 1..Len(requests) : requests[i].prompt = prompt}

\* C9: when select_responses has merged the outline and composed an article-merge
\* request, that request comes after the outline request and holds the outline as
\* merged and stored, not the outline of before the merge.
C9_ArticleAfterOutline ==
    (pc \in {"EVALUATING", "FAILED"} /\ Asked("outline") # {}) =>
        \A j \in Asked("article") :
            /\ \A i \in Asked("outline") : i < j
            /\ requests[j].article_outline = _outline

C9_Witness ==
    /\ pc = "EVALUATING"
    /\ Asked("outline") = {1}
    /\ Asked("article") = {2}
    /\ requests[1].existing_outline # _outline
    /\ requests[1].existing_outline # ""

HasKeepEditing(text) ==
    \E i \in 1..Len(text) :
        /\ i + 2 <= Len(text)
        /\ text[i] = "KEEP"
        /\ text[i + 1] = " "
        /\ text[i + 2] = "EDITING"

\* C10: select_responses returns the empty list (continue) exactly when the
\* oracle's verdict text holds KEEP EDITING somewhere; in every other case, a text
\* with neither marker included, it returns the one message with the article (stop).
C10_VerdictByMarker ==
    pc = "EVALUATING" =>
        /\ result = <<>> <=> HasKeepEditing(decision)
        /\ ~HasKeepEditing(decision) =>
               /\ Len(result) = 1
               /\ result[1].message.message = _article

C10_Witness ==
    /\ pc = "EVALUATING"
    /\ result = <<>>
    /\ HasKeepEditing(decision)
    /\ decision[Len(decision)] # "EDITING"

\* no line of the planning reply is a decision above the threshold
NoLinePasses ==
    \A k \in 1..Len(Lines(response)) : ~AboveThreshold(Lines(response)[k])

AnswerTo(prompt) == answers[CHOOSE i \in Asked(prompt) : TRUE]

OneCall(prompt) == Cardinality(Asked(prompt)) = 1

\* C12: a select_responses call that has come to its verdict has asked for exactly
\* one outline merge if the round has outline candidates (none otherwise) and for
\* exactly one article merge if it has article candidates (none otherwise), the
\* outline first, each with all the candidates of its field, and each merged
\* field holds the text the oracle returned to its call.
C12_OneMergePerField ==
    pc = "EVALUATING" =>
        /\ Cardinality(Asked("outline")) = (IF outlines # <<>> THEN 1 ELSE 0)
        /\ Cardinality(Asked("article")) = (IF articles # <<>> THEN 1 ELSE 0)
        /\ \A i \in Asked("outline") :
               /\ requests[i].possible_outlines = outlines
               /\ answers[i] = <<_outline>>
               /\ \A j \in Asked("article") : i < j
        /\ \A j \in Asked("article") :
               /\ requests[j].partial_articles = articles
               /\ answers[j] = <<_article>>

\* both fields merged in one aggregation, to different texts
C12_Witness ==
    /\ pc = "EVALUATING"
    /\ outlines # <<>>
    /\ articles # <<>>
    /\ OneCall("outline")
    /\ OneCall("article")
    /\ AnswerTo("outline") = <<_outline>>
    /\ AnswerTo("article") = <<_article>>
    /\ _outline # _article

ContextBuilders == {"GoogleSearchContextBuilderSkill", "GoogleNewsContextBuilderSkill"}

\* the results of the current round come from the context builders alone
ContextOnly ==
    /\ CurrentFrom("OutlineWriterSkill") = {}
    /\ CurrentFrom("SectionWriterSkill") = {}
    /\ \E source \in ContextBuilders : CurrentFrom(source) # {}

\* C13: a select_responses call changes outline only if a result of the current
\* round comes from the outline skill, and article only if one comes from the
\* article skill; the results of the context builders count for neither, so a
\* round with such results alone asks for no merge and leaves both fields as
\* they were.
C13_OnlyOwnCandidatesMerge ==
    [][ (pc = "AGGREGATING" /\ pc' \in {"EVALUATING", "FAILED"}) =>
            /\ _outline' # _outline => CurrentFrom("OutlineWriterSkill") # {}
            /\ _article' # _article => CurrentFrom("SectionWriterSkill") # {}
            /\ ContextOnly =>
                   /\ UNCHANGED <<_outline, _article>>
                   /\ outlines' = <<>>
                   /\ articles' = <<>>
                   /\ \A i \in 1..Len(requests') : requests'[i].prompt = "decision" ]_vars

\* a round of search results alone, after a round that merged an outline
C13_Witness ==
    /\ pc = "EVALUATING"
    /\ ContextOnly
    /\ StaleFrom("OutlineWriterSkill") # {}
    /\ _outline # ""
    /\ Asked("decision") = {1}

\* C14: each merge of select_responses either stores the whole text the oracle
\* returned to it or leaves its field as it was before the call: a merge whose
\* oracle call raises leaves outline (article) unchanged, and a field that has
\* changed holds the complete answer to its merge request.
C14_MergeAtomic ==
    [][ (pc = "AGGREGATING" /\ pc' \in {"EVALUATING", "FAILED"}) =>
            /\ \A i \in 1..Len(requests') :
                   (requests'[i].prompt = "outline" /\ answers'[i] = <<>>) =>
                       _outline' = _outline
            /\ \A i \in 1..Len(requests') :
                   (requests'[i].prompt = "article" /\ answers'[i] = <<>>) =>
                       _article' = _article
            /\ \/ _outline' = _outline
               \/ \E i \in 1..Len(requests') :
                      requests'[i].prompt = "outline" /\ answers'[i] = <<_outline'>>
            /\ \/ _article' = _article
               \/ \E i \in 1..Len(requests') :
                      requests'[i].prompt = "article" /\ answers'[i] = <<_article'>> ]_vars

\* the article merge raises after the outline merge has succeeded, in a round
\* that started with an article
C14_Witness ==
    /\ pc = "FAILED"
    /\ Asked("outline") = {1}
    /\ Asked("article") = {2}
    /\ answers[1] = <<_outline>>
    /\ answers[2] = <<>>
    /\ requests[2].existing_article = _article
    /\ _article # ""

\* C15: when the oracle call of the outline merge raises in a select_responses
\* call that has article candidates too, the article merge is asked for in that
\* same call, with the outline as it was, and its answer is stored in article.
C15_ArticleMergedAfterOutlineFailure ==
    ( /\ pc \in {"EVALUATING", "FAILED"}
      /\ articles # <<>>
      /\ \E i \in Asked("outline") : answers[i] = <<>> ) =>
        /\ OneCall("article")
        /\ \A j \in Asked("article") :
               /\ requests[j].article_outline = _outline
               /\ answers[j] # <<>> => answers[j] = <<_article>>

\* C16: with a finite budget every run of the loop reaches DONE, also when the
\* verdict is KEEP EDITING in every round and every plan has units: the budget
\* running out ends the run, none goes on planning for ever.
C16_BudgetEndsRun == (pc = "PLANNING") ~> (pc = "DONE")

\* C17: the budget is checked before each phase, the termination check included:
\* once it has run out no oracle call follows, so in a state where the budget
\* has run out the handler that ran last has asked neither for a plan nor for a
\* verdict.
C17_NoCallOnceExpired ==
    budget = "expired" => (Asked("plan") = {} /\ Asked("decision") = {})

\* a step that is one call of get_plan, of select_responses
GetPlanStep == pc = "PLANNING" /\ pc' \in {"PLANNED", "FAILED"}
SelectResponsesStep == pc = "AGGREGATING" /\ pc' \in {"EVALUATING", "FAILED"}

\* C18: get_plan never changes outline or article, select_responses never
\* changes _iteration, and no other step of the program changes any of the three:
\* _iteration changes in get_plan steps only, outline and article in
\* select_responses steps only.
C18_SingleWriter ==
    [][ /\ GetPlanStep => UNCHANGED <<_outline, _article>>
        /\ SelectResponsesStep => UNCHANGED _iteration
        /\ _iteration' # _iteration => GetPlanStep
        /\ (_outline' # _outline \/ _article' # _article) => SelectResponsesStep ]_vars

\* the second get_plan of a run, planning on the document the first round merged
C18_Witness ==
    /\ pc = "PLANNED"
    /\ _iteration = 2
    /\ _outline # ""
    /\ _article # ""
    /\ requests[1].outline = _outline
    /\ requests[1].article = _article

\* the data of the unit's initial state
Snapshot(unit) == unit.initial_state.data

\* the chain context kept for the k-th chain: the initial state, the skill's message
LastRun(k) == chainHistory[k].contexts[Len(chainHistory[k].contexts)]

\* C19: the units of a plan all carry the article, the outline and the (already
\* raised) _iteration of the get_plan call that made them; each skill copies the
\* iteration of its unit into its result; and a later get_plan call changes the
\* iteration of no result recorded before.
C19_SnapshotOfThePlan ==
    /\ [](pc \in {"PLANNED", "DISPATCHED", "AGGREGATING"} =>
              \A i \in 1..Len(plan) :
                  Snapshot(plan[i]) = [article |-> _article, outline |-> _outline,
                                       iteration |-> _iteration])
    /\ [](pc = "PLANNED" => _iteration = calls /\ _iteration > 0)
    /\ [](\A k \in 1..Len(chainHistory) :
              /\ ~LastRun(k)[2].is_error =>
                     LastRun(k)[2].data.iteration = LastRun(k)[1].data.iteration
              /\ LastRun(k)[1].data.iteration \in 1.._iteration)
    /\ [][GetPlanStep => UNCHANGED chainHistory]_vars

\* the second round has run its two units: its plan carries the document of
\* round 1, a result of round 1 is still recorded beside one of round 2
C19_Witness ==
    /\ pc = "DISPATCHED"
    /\ pending = {}
    /\ Len(plan) = 2
    /\ _iteration = 2
    /\ Snapshot(plan[2]).outline # ""
    /\ \E k \in 1..Len(chainHistory) : LastRun(k)[2].data.iteration = 1
    /\ \E k \in 1..Len(chainHistory) : LastRun(k)[2].data.iteration = 2

\* the steps from one position of a run to the next
PhaseOrder ==
    { <<"PLANNING", "PLANNED">>, <<"PLANNED", "DISPATCHED">>,
      <<"DISPATCHED", "AGGREGATING">>, <<"AGGREGATING", "EVALUATING">>,
      <<"EVALUATING", "PLANNING">>,
      <<"PLANNING", "FAILED">>, <<"AGGREGATING", "FAILED">>,
      <<"PLANNING", "DONE">>, <<"PLANNED", "DONE">>, <<"DISPATCHED", "DONE">>,
      <<"AGGREGATING", "DONE">>, <<"EVALUATING", "DONE">>,
      <<"DONE", "INPUT">>, <<"INPUT", "PLANNING">>, <<"INPUT", "EXIT">> }

\* the i-th unit of the plan has run in this round
HasRun(i) ==
    \E k \in 1..Len(chainHistory) :
        /\ chainHistory[k].name = plan[i].chain.name
        /\ LastRun(k)[1].data.iteration = _iteration

\* C20: a round goes through planning, dispatch, aggregation and termination check
\* in this order, one at a time: units run during dispatch only, each once (the
\* budget running out leaves the rest unrun, and the run is over); the
\* evaluator and select_responses start only when every unit of the plan has
\* run, on the results as they then are; select_responses asks for the verdict
\* last; and get_plan is not called again before the round is over.
C20_PhasesInOrder ==
    /\ [][pc' # pc => <<pc, pc'>> \in PhaseOrder]_vars
    /\ [][chainHistory' # chainHistory =>
              /\ pc = "DISPATCHED" /\ pc' = "DISPATCHED"
              /\ \E i \in pending : pending' = pending \ {i} /\ HasRun(i)' ]_vars
    /\ [][GetPlanStep => pending = {}]_vars
    /\ [](pending # {} => (pc = "DISPATCHED" \/ (pc = "DONE" /\ budget = "expired")))
    /\ [](pc \in {"AGGREGATING", "EVALUATING"} =>
              /\ pending = {}
              /\ \A i \in 1..Len(plan) : HasRun(i)
              /\ LastEvaluation = execute(chainHistory)
              /\ \A i \in Asked("decision") : i = Len(requests))

\* both units of the second round have run, the aggregation is to start
C20_Witness ==
    /\ pc = "AGGREGATING"
    /\ Len(plan) = 2
    /\ plan[1].chain # plan[2].chain
    /\ pending = {}
    /\ _iteration = 2
    /\ HasRun(1)
    /\ HasRun(2)

(***************************************************************************)
(* Properties of runs with failing skills (SpecFailure).                   *)
(***************************************************************************)
ErrorResults == {k \in 1..Len(LastEvaluation) : LastEvaluation[k].message.is_error}

\* the results of the current round from this skill that carry no error tag
OkCurrentFrom(source) ==
    {k \in CurrentFrom(source) : ~LastEvaluation[k].message.is_error}

\* C21: a result tagged as an error (the evaluator scores it 0) does not make
\* select_responses raise and is no merge candidate: once select_responses has
\* run, it has come past its reading of the results, and its outline (article)
\* candidates are as many as the untagged results of the current round from the
\* outline (article) skill.
C21_ErrorResultsIgnored ==
    (pc \in {"EVALUATING", "FAILED"} /\ Asked("plan") = {}) =>
        /\ ErrorResults # {} => requests # <<>>
        /\ Len(outlines) = Cardinality(OkCurrentFrom("OutlineWriterSkill"))
        /\ Len(articles) = Cardinality(OkCurrentFrom("SectionWriterSkill"))

(***************************************************************************)
(* Further properties of the rounds of a run (Spec).                       *)
(***************************************************************************)
\* C22: after the termination check a verdict to continue returns no message
\* and the loop goes to PLANNING for the next round; a verdict to stop returns
\* exactly one message, its text the article as merged in this round (the
\* oracle's answer to the article merge when there was one), and the loop goes
\* to DONE with that message as its result.
C22_VerdictTransitions ==
    /\ [](pc = "EVALUATING" =>
              IF HasKeepEditing(decision)
              THEN result = <<>>
              ELSE /\ Len(result) = 1
                   /\ result[1].message.message = _article
                   /\ \A j \in Asked("article") :
                          <<result[1].message.message>> = answers[j])
    /\ [][pc = "EVALUATING" =>
              /\ pc' = (IF HasKeepEditing(decision) THEN "PLANNING" ELSE "DONE")
              /\ UNCHANGED <<result, controller, context>>]_vars

\* a stop verdict in a round whose article merge has changed the article
C22_Witness ==
    /\ pc = "EVALUATING"
    /\ ~HasKeepEditing(decision)
    /\ Asked("article") # {}
    /\ \A j \in Asked("article") :
           /\ requests[j].existing_article # ""
           /\ requests[j].existing_article # _article
    /\ result = FinalOutput(_article)

\* the units of the plan that go to the chain of this skill
UnitsFor(skill) == {i \in 1..Len(plan) : plan[i].chain.runner = skill}

\* C23: every result an outline or article worker has produced in the round is
\* a merge candidate of select_responses, one per unit of the plan, also when
\* two units of the plan go to the same chain with different instructions.
C23_OneCandidatePerUnit ==
    (pc \in {"EVALUATING", "FAILED"} /\ Asked("plan") = {}) =>
        /\ Len(outlines) = Cardinality(UnitsFor("OutlineWriterSkill"))
        /\ Len(articles) = Cardinality(UnitsFor("SectionWriterSkill"))

\* the last unit of the plan that goes to the chain of this skill
LastUnitFor(skill) ==
    CHOOSE i \in UnitsFor(skill) : \A j \in UnitsFor(skill) : j <= i

\* the candidates select_responses has when the units complete in plan order
InPlanOrder(skill) ==
    IF UnitsFor(skill) = {} THEN {<<>>}
    ELSE {<<ReplyTo(r, plan[LastUnitFor(skill)].initial_state.message)>> : r \in SkillReplies}

\* C24: in whatever order the units of a round complete, select_responses has
\* the same outline and article candidates, those of the units completing in
\* plan order; and running a unit changes nothing of the controller's state.
C24_OrderIndependent ==
    /\ []((pc \in {"EVALUATING", "FAILED"} /\ Asked("plan") = {}) =>
              /\ outlines \in InPlanOrder("OutlineWriterSkill")
              /\ articles \in InPlanOrder("SectionWriterSkill"))
    /\ [][chainHistory' # chainHistory => UNCHANGED controller]_vars

\* an oracle call of the handler that ran last has raised
OracleFailed == \E i \in 1..Len(answers) : answers[i] = <<>>

\* C25: an oracle call that fails (planning, merge or termination check) does
\* not end the run with the error: a handler whose oracle call has raised leaves
\* the loop running, on its way to DONE, and the call is asked once only.
C25_OracleFailureRecoverable ==
    OracleFailed =>
        /\ pc # "FAILED"
        /\ \A i, j \in 1..Len(requests) : requests[i] = requests[j] => i = j

\* the text is one of the texts the planning request is composed of
InPlanRequest(request, text) ==
    \/ request.outline = text
    \/ request.article = text
    \/ \E i \in 1..Len(request.conversation_history) :
           \E j \in 1..Len(request.conversation_history[i]) :
               request.conversation_history[i][j] = text

\* C26: the context a search skill has built in a round is not lost: the
\* planning request of the next round holds it, as such or in the conversation
\* history it quotes.
C26_ContextReachesPlanner ==
    pc = "PLANNED" =>
        \A k \in 1..Len(chainHistory) :
            ( /\ LastRun(k)[2].source \in ContextBuilders
              /\ LastRun(k)[2].data.iteration = _iteration - 1 ) =>
                InPlanRequest(requests[1], LastRun(k)[2].data.context)

\* C27: a select_responses call that returns has asked for exactly one verdict,
\* as its last request, after the merges it made, also when the round gave it
\* no candidate at all; the request holds the outline and the article as they
\* are after the merges, and the conversation history.
C27_OneTerminationCheck ==
    pc = "EVALUATING" =>
        /\ Asked("decision") = {Len(requests)}
        /\ answers[Len(answers)] = <<decision>>
        /\ requests[Len(requests)].outline = _outline
        /\ requests[Len(requests)].article = _article
        /\ requests[Len(requests)].conversation_history =
               conversation_history(chatHistory)
        /\ Len(requests) = 1 + (IF outlines # <<>> THEN 1 ELSE 0)
                             + (IF articles # <<>> THEN 1 ELSE 0)

\* no candidate in a round that started with a merged document
C27_Witness ==
    /\ pc = "EVALUATING"
    /\ outlines = <<>>
    /\ articles = <<>>
    /\ Len(requests) = 1
    /\ requests[1].prompt = "decision"
    /\ requests[1].article # ""
    /\ requests[1].article = _article


(***************************************************************************)
(* filter.py: the aggregation written as a filter, its fields held by an   *)
(* AppState that the filter is handed at construction.                     *)
(***************************************************************************)

\* AppState: the holder of the round number, the outline and the article
AppState(iteration, outline, article) ==
    [iteration |-> iteration, outline |-> outline, article |-> article]

\* context.evaluation: the scored results of the evaluation just made
evaluation(history) == history[Len(history)]

\* (mutant) the article merge is handed the outline of before the merge
_executeOutlineOfStart(state, evals, history, om, am, d) ==
    LET r == select_responses(evals, history, state.iteration, state.outline,
                              state.article, om, am, d)
        as == r.articles
        at == IF r.outlines # <<>> THEN 2 ELSE 1
    IN  [state |-> AppState(state.iteration, r.outline, r.article),
         requests |-> IF as # <<>> /\ Len(r.requests) >= at
                      THEN [r.requests EXCEPT ![at] =
                               ArticleRequest(history, state.outline, state.article, as)]
                      ELSE r.requests,
         answers |-> r.answers,
         awaited |-> r.awaited,
         raised |-> r.raised,
         result |-> r.result]

\* One call of WritingAssistantFilter._execute on the AppState state, the oracle
\* answering om to the outline merge, am to the article merge and d to the
\* termination check (<<>>: the call raises).
_execute(state, evals, history, om, am, d) ==
    IF \E k \in 1..Len(evals) : "iteration" \notin DOMAIN evals[k].message.data
    THEN [state |-> state, requests |-> <<>>, answers |-> <<>>, awaited |-> FALSE,
          raised |-> TRUE, result |-> <<>>]
    ELSE
    LET current == current_iteration_results(all_eval_results(evals), state.iteration)
        outlines_ == Candidates(current, "OutlineWriterSkill", "outline")
        articles_ == Candidates(current, "SectionWriterSkill", "article")
        \* if len(outlines) > 0: ... self.state.outline = response
        q1 == IF outlines_ # <<>>
              THEN <<OutlineRequest(history, state.outline, outlines_)>> ELSE <<>>
        raised1 == outlines_ # <<>> /\ om = <<>>
        state1 == IF outlines_ # <<>> /\ om # <<>>
                  THEN [state EXCEPT !.outline = om[1]] ELSE state
        \* if len(articles) > 0: ... self.state.article = llm_result.first_choice
        q2 == IF ~raised1 /\ articles_ # <<>>
              THEN <<ArticleRequest(history, state1.outline, state1.article, articles_)>>
              ELSE <<>>
        raised2 == raised1 \/ (articles_ # <<>> /\ am = <<>>)
        state2 == IF ~raised1 /\ articles_ # <<>> /\ am # <<>>
                  THEN [state1 EXCEPT !.article = am[1]] ELSE state1
        \* the decision
        q3 == IF ~raised2
              THEN <<DecisionRequest(history, state2.outline, state2.article)>> ELSE <<>>
        raised3 == raised2 \/ d = <<>>
    IN  [state |-> state2,
         requests |-> q1 \o q2 \o q3,
         answers |-> (IF q1 # <<>> THEN <<om>> ELSE <<>>)
                     \o (IF q2 # <<>> THEN <<am>> ELSE <<>>)
                     \o (IF q3 # <<>> THEN <<d>> ELSE <<>>),
         awaited |-> ~raised2 /\ (q1 # <<>> \/ q2 # <<>>),
         raised |-> raised3,
         result |-> IF raised3 THEN <<>>
                    ELSE IF Contains(d[1], KEEP_EDITING) THEN <<>>
                    ELSE << [message |-> [kind |-> "Agent", message |-> state2.article],
                             score |-> 1] >>]

\* The filter in the place of select_responses: the AppState is the one the
\* controller reads its round number, outline and article from.
FilterExecute ==
    /\ pc = "AGGREGATING"
    /\ budget = "ok"
    /\ \E om \in Outcomes(MergeReplies), am \in Outcomes(MergeReplies),
          d \in Outcomes(DecisionReplies) :
          LET r == _execute(AppState(_iteration, _outline, _article),
                            evaluation(evaluationHistory),
                            conversation_history(chatHistory), om, am, d)
              current == current_iteration_results(
                             all_eval_results(evaluation(evaluationHistory)), _iteration)
          IN  /\ outlines' = Candidates(current, "OutlineWriterSkill", "outline")
              /\ articles' = Candidates(current, "SectionWriterSkill", "article")
              /\ requests' = r.requests
              /\ answers' = r.answers
              /\ _outline' = r.state.outline
              /\ _article' = r.state.article
              /\ decision' = IF r.raised THEN <<>> ELSE d[1]
              /\ result' = r.result
              /\ pc' = IF r.raised THEN "FAILED" ELSE "EVALUATING"
              /\ budget' \in (IF r.awaited THEN {"ok", "expired"} ELSE {"ok"})
    /\ UNCHANGED <<spinner, _iteration, _top_k, _response_threshold, context, plan, pending,
                   response, calls>>

NextFilter ==
    \/ UserMessage
    \/ Quit
    \/ GetPlan(LoopReplies)
    \/ PlanReturned
    \/ \E i \in 1..MaxTopK : ExecuteUnit(i)
    \/ Evaluate
    \/ FilterExecute
    \/ VerdictReturned
    \/ Expire
    \/ BudgetExhausted
    \/ ShowResult

SpecFilter == Init /\ [][NextFilter]_vars

\* C28: started on the same round number, outline and article, with the same
\* scored results and the same oracle answers, WritingAssistantFilter._execute and
\* WritingAssistantController.select_responses send the same requests in the same
\* order, leave the same outline and article, keep the round number, and return
\* the same verdict with the same message (or raise alike).
C28_FilterEquivalent ==
    pc = "AGGREGATING" =>
        \A om \in Outcomes(MergeReplies), am \in Outcomes(MergeReplies),
           d \in Outcomes(DecisionReplies) :
            LET f == _execute(AppState(_iteration, _outline, _article),
                              evaluation(evaluationHistory),
                              conversation_history(chatHistory), om, am, d)
                c == select_responses(evaluationHistory[Len(evaluationHistory)],
                                      conversation_history(chatHistory),
                                      _iteration, _outline, _article, om, am, d)
            IN  /\ f.requests = c.requests
                /\ f.answers = c.answers
                /\ f.state.iteration = _iteration
                /\ f.state.outline = c.outline
                /\ f.state.article = c.article
                /\ f.raised = c.raised
                /\ f.result = c.result

\* the filter has merged both fields of a later round and returned the article
C28_Witness ==
    /\ pc = "EVALUATING"
    /\ _iteration = 2
    /\ Len(requests) = 3
    /\ _outline # ""
    /\ _article # ""
    /\ result # <<>>


(***************************************************************************)
(* run_agent.py: the Spinner and the thread it starts, around an           *)
(* agent.execute that returns or raises.                                   *)
(***************************************************************************)

\* itertools.cycle(['-', '/', '|', '\\'])
Frames == <<"-", "/", "|", "\\">>

\* s = Spinner(); s.start(); chat_history.add_user_message(user_input)
SpinnerStart ==
    /\ pc = "INPUT"
    /\ Len(chatHistory) < MaxMessages
    /\ running' = TRUE
    /\ spinner_thread' = "while"
    /\ spinner_cycle' = 0
    /\ chatHistory' = Append(chatHistory,
                             [kind |-> "ChatMessageKind.User", message |-> DefaultMessage])
    /\ pc' = "PLANNING"
    /\ UNCHANGED <<controller, chainHistory, evaluationHistory, budget, plan, pending,
                   locals, calls>>

\* result = agent.execute(run_context, Budget(900)): the run returns, or an
\* exception of a handler leaves it, and main with it, which catches none
AgentExecute ==
    /\ pc = "PLANNING"
    /\ pc' \in {"DONE", "FAILED"}
    /\ UNCHANGED <<controller, context, budget, plan, pending, locals, calls, spinner>>

\* s.stop(): self.running = False, then the join
SpinnerStop ==
    /\ pc = "DONE"
    /\ running' = FALSE
    /\ pc' = "JOIN"
    /\ UNCHANGED <<controller, context, budget, plan, pending, locals, calls,
                   spinner_thread, spinner_cycle>>

\* self.spinner_thread.join() returns once the thread has ended; main prints the
\* result and asks for the next message
SpinnerJoined ==
    /\ pc = "JOIN"
    /\ spinner_thread = "terminated"
    /\ pc' = "INPUT"
    /\ UNCHANGED <<controller, context, budget, plan, pending, locals, calls, spinner>>

\* init_spinner: while self.running
SpinnerWhile ==
    /\ spinner_thread = "while"
    /\ spinner_thread' = IF running THEN "print" ELSE "clear"
    /\ UNCHANGED <<controller, context, pc, budget, plan, pending, locals, calls,
                   running, spinner_cycle>>

\* init_spinner: print(f'\r{message} {next(self.spinner_cycle)}', ...)
SpinnerPrint ==
    /\ spinner_thread = "print"
    /\ spinner_cycle' = (spinner_cycle + 1) % Len(Frames)
    /\ spinner_thread' = "sleep"
    /\ UNCHANGED <<controller, context, pc, budget, plan, pending, locals, calls,
                   running>>

\* init_spinner: time.sleep(0.1)
SpinnerSleep ==
    /\ spinner_thread = "sleep"
    /\ spinner_thread' = "while"
    /\ UNCHANGED <<controller, context, pc, budget, plan, pending, locals, calls,
                   running, spinner_cycle>>

\* init_spinner: the spinner is cleared from the console and the thread ends
SpinnerClear ==
    /\ spinner_thread = "clear"
    /\ spinner_thread' = "terminated"
    /\ UNCHANGED <<controller, context, pc, budget, plan, pending, locals, calls,
                   running, spinner_cycle>>

init_spinner ==
    \/ SpinnerWhile
    \/ SpinnerPrint
    \/ SpinnerSleep
    \/ SpinnerClear

NextSpinner ==
    \/ SpinnerStart
    \/ Quit
    \/ AgentExecute
    \/ SpinnerStop
    \/ SpinnerJoined
    \/ init_spinner

SpecSpinner == Init /\ [][NextSpinner]_vars

\* the thread of the Spinner is running
Alive == spinner_thread \in {"while", "print", "sleep", "clear"}

\* C29: every started Spinner thread terminates: main does not leave a round, by
\* the return of agent.execute or by its failure, with the thread alive, and
\* stop() has returned only once the thread has left its loop.
C29_SpinnerTerminates ==
    /\ pc \in {"FAILED", "EXIT"} => ~Alive
    /\ pc = "INPUT" => ~Alive

====
